---- MODULE Spec2Model ----
(***************************************************************************)
(* Model of the program registry service (src/src/main.rs): the            *)
(* upload_program and get_program handlers over the programs table.        *)
(* Every upload request is a process that is suspended at its awaits (the  *)
(* next multipart field, the INSERT); a fetch has a single await (the      *)
(* SELECT) and is one step.                                                *)
(***************************************************************************)
EXTENDS Integers, Sequences, FiniteSets, TLC

\* ---------------------------------------------------------------- bounds
\* number of upload_program requests
MaxReqs == 2

\* ------------------------------------------------------- program constants
OK == 200
BAD_REQUEST == 400
INTERNAL_SERVER_ERROR == 500
\* no response was produced (the handler future panicked or was dropped)
NoResponse == 0
\* i32 range of `version`
I32Max == 2147483647
\* bootloader_version passed to compute_program_hash_chain
bootloader_version == 0

Reqs == 1 .. MaxReqs

\* ------------------------------------------------------------------ blobs
\* A blob is a byte string; the model names each distinct byte string by a
\* number and tabulates what the external parsers make of it:
\*   json  the bytes are UTF-8 and parse as a JSON value
\*   hasCv the JSON value has a string field "compiler_version"
\*   cv    that string, as a sequence of characters
\*   casm  the compiled class serde_json::from_slice yields (0: parse error)
\*   prog  the stripped program Program::from_bytes, get_stripped_program
\*         yield (0: error)
\* Blobs 1 and 2 are different bytes of the same compiled class.
BlobTable ==
  << [json |-> TRUE,  hasCv |-> TRUE,  cv |-> <<"2", ".", "1", ".", "0">>, casm |-> 1, prog |-> 0],
     [json |-> TRUE,  hasCv |-> TRUE,  cv |-> <<"2", ".", "1", ".", "0">>, casm |-> 1, prog |-> 0],
     [json |-> TRUE,  hasCv |-> TRUE,  cv |-> <<"0", ".", "1", "3">>,      casm |-> 0, prog |-> 1],
     [json |-> TRUE,  hasCv |-> FALSE, cv |-> <<>>,                        casm |-> 0, prog |-> 2],
     [json |-> TRUE,  hasCv |-> TRUE,  cv |-> <<"5", ".", "0", ".", "0">>, casm |-> 0, prog |-> 0],
     [json |-> FALSE, hasCv |-> FALSE, cv |-> <<>>,                        casm |-> 0, prog |-> 0],
     [json |-> TRUE,  hasCv |-> TRUE,  cv |-> <<"2", ".", "0">>,           casm |-> 0, prog |-> 0],
     [json |-> TRUE,  hasCv |-> TRUE,  cv |-> <<"0", ".", "1">>,           casm |-> 0, prog |-> 0],
     [json |-> TRUE,  hasCv |-> TRUE,  cv |-> <<"x", ".", "1">>,           casm |-> 0, prog |-> 0] >>

Blobs == 1 .. Len(BlobTable)
\* program_data = None
None == 0

\* ----------------------------------------------------------- conversions
Digits == <<"0", "1", "2", "3", "4", "5", "6", "7", "8", "9">>
HexChars == <<"0", "1", "2", "3", "4", "5", "6", "7", "8", "9",
              "a", "b", "c", "d", "e", "f">>

IsDigit(c) == \E i \in 1 .. Len(Digits) : Digits[i] = c
DigitVal(c) == (CHOOSE i \in 1 .. Len(Digits) : Digits[i] = c) - 1

\* compiler_version.split('.').collect::<Vec<&str>>()[0]
RECURSIVE SplitFirst(_)
SplitFirst(s) ==
  IF s = <<>> \/ Head(s) = "." THEN <<>>
  ELSE <<Head(s)>> \o SplitFirst(Tail(s))

RECURSIVE DecVal(_, _)
DecVal(s, acc) ==
  IF s = <<>> THEN acc ELSE DecVal(Tail(s), acc * 10 + DigitVal(Head(s)))

\* str::parse::<i32>: an optional sign, then one or more decimal digits, the
\* value within i32; [ok |-> FALSE] is the Err the caller unwraps
ParseI32(s) ==
  LET signed == s # <<>> /\ Head(s) \in {"+", "-"}
      body == IF signed THEN Tail(s) ELSE s
      wellFormed == body # <<>> /\ \A i \in 1 .. Len(body) : IsDigit(body[i])
      mag == IF wellFormed THEN DecVal(body, 0) ELSE 0
      val == IF signed /\ Head(s) = "-" THEN 0 - mag ELSE mag
  IN IF wellFormed /\ val <= I32Max /\ val >= 0 - I32Max - 1
       THEN [ok |-> TRUE, val |-> val]
       ELSE [ok |-> FALSE, val |-> 0]

\* fn get_compiler_version: Ok(version string) or Err
get_compiler_version(b) ==
  IF BlobTable[b].json /\ BlobTable[b].hasCv
    THEN [ok |-> TRUE, val |-> BlobTable[b].cv]
    ELSE [ok |-> FALSE, val |-> <<>>]

RECURSIVE HexDigits(_)
HexDigits(n) ==
  IF n = 0 THEN <<>> ELSE HexDigits(n \div 16) \o <<HexChars[(n % 16) + 1]>>

\* format!("{:#x}", felt)
FormatHex(n) == <<"0", "x">> \o (IF n = 0 THEN <<"0">> ELSE HexDigits(n))

\* Felt252::to_be_bytes and FieldElement::from_bytes_be, two bytes wide here
to_be_bytes(n) == <<n \div 256, n % 256>>
from_bytes_be(bs) == bs[1] * 256 + bs[2]

\* the external hash functions, as injective tables over what was parsed
compiled_class_hash(class) == 26 + 17 * class
compute_program_hash_chain(stripped, bootloader) == 300 + 5 * stripped + bootloader


\* ------------------------------------------------------------ pure steps
\* Classify with the missing field defaulted to version 0 instead of an Err
Classify_DefaultZero(b) ==
  IF BlobTable[b].json /\ ~BlobTable[b].hasCv
    THEN [ok |-> TRUE, val |-> 0, site |-> ""]
    ELSE LET cv == get_compiler_version(b)
         IN IF ~cv.ok THEN [ok |-> FALSE, val |-> 0, site |-> "get_compiler_version"]
            ELSE LET major == ParseI32(SplitFirst(cv.val))
                 IN IF major.ok THEN [ok |-> TRUE, val |-> major.val, site |-> ""]
                    ELSE [ok |-> FALSE, val |-> 0, site |-> "parse"]

\* lines 115-119 of upload_program: the major version of a "program" part,
\* or the Err on which one of the two unwraps panics
Classify(b) ==
  LET cv == get_compiler_version(b)
  IN IF ~cv.ok THEN [ok |-> FALSE, val |-> 0, site |-> "get_compiler_version"]
     ELSE LET major == ParseI32(SplitFirst(cv.val))
          IN IF major.ok THEN [ok |-> TRUE, val |-> major.val, site |-> ""]
             ELSE [ok |-> FALSE, val |-> 0, site |-> "parse"]

\* lines 127-130: the compiled-class hash of the blob, rendered
HashCompiledClass(b) ==
  LET casm == BlobTable[b].casm
  IN IF casm = 0 THEN [ok |-> FALSE, hex |-> <<>>]
     ELSE [ok |-> TRUE,
           hex |-> FormatHex(from_bytes_be(to_be_bytes(compiled_class_hash(casm))))]

\* lines 149-156: the hash chain of the stripped program, rendered
HashStrippedProgram(b) ==
  LET stripped == BlobTable[b].prog
  IN IF stripped = 0 THEN [ok |-> FALSE, hex |-> <<>>]
     ELSE [ok |-> TRUE,
           hex |-> FormatHex(compute_program_hash_chain(stripped, bootloader_version))]

\* SelectStrategy with a plain `else` in place of `else if version == 0`
SelectStrategy_NoElse(ver) ==
  IF ver = 2 THEN "compiled_class" ELSE "plain_program"

\* lines 126, 148, 174: the branch `version` selects
SelectStrategy(ver) ==
  IF ver = 2 THEN "compiled_class"
  ELSE IF ver = 0 THEN "plain_program"
  ELSE "unsupported"

\* NewRow binding bootloader_version where `version` belongs
NewRow_WrongVersion(uuid, hash, data, ver) ==
  [id |-> uuid, hash |-> hash, code |-> data, version |-> bootloader_version]

\* the row the INSERT statement of lines 135-141 and 161-167 writes
NewRow(uuid, hash, data, ver) ==
  [id |-> uuid, hash |-> hash, code |-> data, version |-> ver]

\* ConstraintViolation of a table whose hash column is not unique
ConstraintViolation_NoUnique(tbl, row) ==
  \E x \in tbl : x.id = row.id

\* the constraints of the programs table: the surrogate key and the unique
\* content hash
ConstraintViolation(tbl, row) ==
  \E x \in tbl : x.id = row.id \/ x.hash = row.hash

\* ExecInsert that writes the row first and its payload in a later statement
ExecInsert_Partial(tbl, row, dbok) ==
  IF ~dbok THEN [ok |-> FALSE, tbl |-> tbl, err |-> "storage"]
  ELSE IF \E x \in tbl : x.id = row.id \/ x.hash = row.hash
    THEN [ok |-> FALSE, tbl |-> tbl, err |-> "unique"]
    ELSE [ok |-> TRUE, tbl |-> tbl \cup {[row EXCEPT !.code = None]}, err |-> ""]

\* ExecInsert of a statement with ON CONFLICT (hash) DO UPDATE
ExecInsert_Upsert(tbl, row, dbok) ==
  IF ~dbok THEN [ok |-> FALSE, tbl |-> tbl, err |-> "storage"]
  ELSE [ok |-> TRUE, tbl |-> {x \in tbl : x.hash # row.hash} \cup {row}, err |-> ""]

\* .execute(&*db_pool).await of one INSERT: a single atomic statement that
\* either adds the row or fails (storage failure, constraint violation)
ExecInsert(tbl, row, dbok) ==
  IF ~dbok THEN [ok |-> FALSE, tbl |-> tbl, err |-> "storage"]
  ELSE IF ConstraintViolation(tbl, row)
    THEN [ok |-> FALSE, tbl |-> tbl, err |-> "unique"]
    ELSE [ok |-> TRUE, tbl |-> tbl \cup {row}, err |-> ""]

\* SelectByHash without its WHERE clause
SelectByHash_NoWhere(tbl, h) == tbl

\* SELECT code FROM programs WHERE hash = $1
SelectByHash(tbl, h) == {x \in tbl : x.hash = h}

\* ExecSelect of a statement that removes what it reads (DELETE .. RETURNING)
ExecSelect_Delete(tbl, h, dbok) ==
  IF ~dbok THEN [err |-> "storage", rows |-> {}, tbl |-> tbl]
  ELSE IF SelectByHash(tbl, h) = {}
    THEN [err |-> "norow", rows |-> {}, tbl |-> tbl]
    ELSE [err |-> "", rows |-> SelectByHash(tbl, h),
          tbl |-> tbl \ SelectByHash(tbl, h)]

\* lines 75-77: .fetch_one(&*db_pool).await of the SELECT: the matching rows,
\* or the Err of a storage failure or of no row (RowNotFound); the table is
\* as it was
ExecSelect(tbl, h, dbok) ==
  IF ~dbok THEN [err |-> "storage", rows |-> {}, tbl |-> tbl]
  ELSE IF SelectByHash(tbl, h) = {}
    THEN [err |-> "norow", rows |-> {}, tbl |-> tbl]
    ELSE [err |-> "", rows |-> SelectByHash(tbl, h), tbl |-> tbl]

\* MapErr with RowNotFound answered 404
MapErr_NotFound(err) ==
  IF err = "norow" THEN 404 ELSE INTERNAL_SERVER_ERROR

\* line 78: .map_err(|_| StatusCode::INTERNAL_SERVER_ERROR)
MapErr(err) == INTERNAL_SERVER_ERROR

\* ------------------------------------------------------------------ state
VARIABLES
  programs,          \* the rows of table programs
  nextId,            \* source of fresh Uuid values
  pc,                \* where each upload_program request stands
  version,           \* local `version`
  program_data,      \* local `program_data` (None or a blob)
  program_hash_hex,  \* local `program_hash_hex`
  id,                \* local `id` of the row to insert
  resp,              \* the response of the request, once there is one
  sent,              \* the blob of the last "program" part the client sent
  fault,             \* what made the request fail: the unwrap or expect that
                     \* panicked, or the error of the INSERT
  lastGet,           \* the latest get_program request and its response
  attempts,          \* INSERT statements the request has had executed
  several            \* some request has had a "program" part replace an
                     \* earlier one of other bytes

vars == <<programs, nextId, pc, version, program_data, program_hash_hex,
          id, resp, sent, fault, lastGet, attempts, several>>

Response(status, body) == [status |-> status, body |-> body]

\* TakePart that keeps the first "program" part
TakePart_KeepFirst(cur, data) == IF cur = None THEN data ELSE cur

\* line 120: program_data = Some(raw_data), whatever it held
TakePart(cur, data) == data

\* InsertResponse without the result.is_err() check
InsertResponse_Unchecked(ok, hash) == Response(OK, hash)

\* lines 145-147, 171-173, 179: Err(INTERNAL_SERVER_ERROR) when the INSERT
\* failed, Ok(program_hash_hex) otherwise
InsertResponse(ok, hash) ==
  IF ok THEN Response(OK, hash) ELSE Response(INTERNAL_SERVER_ERROR, <<>>)

\* the multipart parts a client may send; the bytes of a part that is not
\* named "program" are never read
Parts == {[name |-> "program", data |-> b] : b \in Blobs}
           \cup {[name |-> "other", data |-> 1]}

\* the hashes a client may ask get_program for: every hash an upload can
\* return, and strings that are no hash of a stored program
GetHashes ==
  {HashCompiledClass(b).hex : b \in {x \in Blobs : HashCompiledClass(x).ok}}
    \cup {HashStrippedProgram(b).hex : b \in {x \in Blobs : HashStrippedProgram(x).ok}}
    \cup {<<"d", "e", "a", "d", "b", "e", "e", "f">>, <<>>}

Init ==
  /\ programs = {}
  /\ nextId = 1
  /\ pc = [r \in Reqs |-> "idle"]
  /\ version = [r \in Reqs |-> 0]
  /\ program_data = [r \in Reqs |-> None]
  /\ program_hash_hex = [r \in Reqs |-> <<>>]
  /\ id = [r \in Reqs |-> 0]
  /\ resp = [r \in Reqs |-> Response(NoResponse, <<>>)]
  /\ sent = [r \in Reqs |-> None]
  /\ fault = [r \in Reqs |-> ""]
  /\ lastGet = [hash |-> <<>>, status |-> NoResponse, body |-> None, cause |-> "none"]
  /\ attempts = [r \in Reqs |-> 0]
  /\ several = FALSE

\* lines 102-109: a request arrives and the locals are initialised
UploadStart(r) ==
  /\ pc[r] = "idle"
  /\ \A q \in Reqs : q < r => pc[q] # "idle"
  /\ pc' = [pc EXCEPT ![r] = "fields"]
  /\ version' = [version EXCEPT ![r] = 0]
  /\ program_data' = [program_data EXCEPT ![r] = None]
  /\ program_hash_hex' = [program_hash_hex EXCEPT ![r] = <<>>]
  /\ UNCHANGED <<programs, nextId, id, resp, sent, fault, lastGet, attempts,
                 several>>

\* lines 111-122: one turn of the loop over the multipart fields; a panic
\* unwinds the handler and drops its locals
UploadField(r, part) ==
  /\ pc[r] = "fields"
  /\ IF part.name = "program"
       THEN LET c == Classify(part.data)
            IN /\ sent' = [sent EXCEPT ![r] = part.data]
               /\ several' = (several \/ (sent[r] # None /\ sent[r] # part.data))
               /\ IF c.ok
                    THEN /\ version' = [version EXCEPT ![r] = c.val]
                         /\ program_data' = [program_data EXCEPT ![r] =
                                               TakePart(@, part.data)]
                         /\ UNCHANGED <<pc, fault>>
                    ELSE /\ pc' = [pc EXCEPT ![r] = "panicked"]
                         /\ fault' = [fault EXCEPT ![r] = c.site]
                         /\ version' = [version EXCEPT ![r] = 0]
                         /\ program_data' = [program_data EXCEPT ![r] = None]
       ELSE UNCHANGED <<pc, fault, sent, several, version, program_data>>
  /\ UNCHANGED <<programs, nextId, program_hash_hex, id, resp, lastGet, attempts>>

\* line 111: the client goes away in mid-transfer; next_field fails or the
\* handler future is dropped with its locals, and the request ends without a
\* response
UploadAbort(r) ==
  /\ pc[r] = "fields"
  /\ pc' = [pc EXCEPT ![r] = "aborted"]
  /\ version' = [version EXCEPT ![r] = 0]
  /\ program_data' = [program_data EXCEPT ![r] = None]
  /\ sent' = [sent EXCEPT ![r] = None]
  /\ UNCHANGED <<programs, nextId, program_hash_hex, id, resp, fault, lastGet,
                 attempts, several>>

\* lines 124-133, 148-159, 174-179: after the last field, up to the INSERT
UploadDispatch(r) ==
  /\ pc[r] = "fields"
  /\ IF program_data[r] = None
       THEN /\ resp' = [resp EXCEPT ![r] = Response(OK, program_hash_hex[r])]
            /\ pc' = [pc EXCEPT ![r] = "done"]
            /\ UNCHANGED <<version, program_data, program_hash_hex, id, nextId, fault>>
       ELSE IF SelectStrategy(version[r]) # "unsupported"
         THEN LET h == IF SelectStrategy(version[r]) = "compiled_class"
                         THEN HashCompiledClass(program_data[r])
                         ELSE HashStrippedProgram(program_data[r])
              IN IF h.ok
                   THEN /\ program_hash_hex' = [program_hash_hex EXCEPT ![r] = h.hex]
                        /\ id' = [id EXCEPT ![r] = nextId]
                        /\ nextId' = nextId + 1
                        /\ pc' = [pc EXCEPT ![r] = "insert"]
                        /\ UNCHANGED <<version, program_data, resp, fault>>
                   ELSE /\ pc' = [pc EXCEPT ![r] = "panicked"]
                        /\ fault' = [fault EXCEPT ![r] =
                                       IF SelectStrategy(version[r]) = "compiled_class"
                                         THEN "casm" ELSE "program"]
                        /\ version' = [version EXCEPT ![r] = 0]
                        /\ program_data' = [program_data EXCEPT ![r] = None]
                        /\ UNCHANGED <<program_hash_hex, id, nextId, resp>>
         ELSE /\ resp' = [resp EXCEPT ![r] = Response(BAD_REQUEST, <<>>)]
              /\ pc' = [pc EXCEPT ![r] = "done"]
              /\ UNCHANGED <<version, program_data, program_hash_hex, id, nextId, fault>>
  /\ UNCHANGED <<programs, sent, lastGet, attempts, several>>

\* lines 135-147, 161-173, 179: the INSERT and the response
UploadInsert(r, dbok) ==
  /\ pc[r] = "insert"
  /\ LET result == ExecInsert(programs,
                              NewRow(id[r], program_hash_hex[r],
                                     program_data[r], version[r]),
                              dbok)
     IN /\ programs' = result.tbl
        /\ fault' = [fault EXCEPT ![r] = result.err]
        /\ resp' = [resp EXCEPT ![r] = InsertResponse(result.ok, program_hash_hex[r])]
  /\ attempts' = [attempts EXCEPT ![r] = @ + 1]
  /\ pc' = [pc EXCEPT ![r] = "done"]
  /\ UNCHANGED <<nextId, version, program_data, program_hash_hex, id, sent,
                 lastGet, several>>

\* lines 142-143, 168-169: the client goes away while the INSERT is awaited;
\* the handler future is dropped, and the statement either had reached the
\* database or had not
UploadCancelInsert(r, executed, dbok) ==
  /\ pc[r] = "insert"
  /\ programs' = IF executed
                   THEN ExecInsert(programs,
                                   NewRow(id[r], program_hash_hex[r],
                                          program_data[r], version[r]),
                                   dbok).tbl
                   ELSE programs
  /\ attempts' = [attempts EXCEPT ![r] = IF executed THEN @ + 1 ELSE @]
  /\ pc' = [pc EXCEPT ![r] = "aborted"]
  /\ version' = [version EXCEPT ![r] = 0]
  /\ program_data' = [program_data EXCEPT ![r] = None]
  /\ UNCHANGED <<nextId, program_hash_hex, id, resp, sent, fault, lastGet,
                 several>>

\* lines 69-95: get_program; fetch_one yields the first matching row
GetProgram(h, dbok) ==
  /\ LET sel == ExecSelect(programs, h, dbok)
     IN /\ programs' = sel.tbl
        /\ IF sel.err # ""
             THEN lastGet' = [hash |-> h, status |-> MapErr(sel.err),
                              body |-> None, cause |-> sel.err]
             ELSE \E row \in sel.rows :
                    lastGet' = [hash |-> h, status |-> OK,
                                body |-> row.code, cause |-> "found"]
  /\ UNCHANGED <<nextId, pc, version, program_data,
                 program_hash_hex, id, resp, sent, fault, attempts, several>>

Next ==
  \/ \E r \in Reqs : UploadStart(r)
  \/ \E r \in Reqs, part \in Parts : UploadField(r, part)
  \/ \E r \in Reqs : UploadAbort(r)
  \/ \E r \in Reqs : UploadDispatch(r)
  \/ \E r \in Reqs, dbok \in BOOLEAN : UploadInsert(r, dbok)
  \/ \E r \in Reqs, executed \in BOOLEAN, dbok \in BOOLEAN :
       UploadCancelInsert(r, executed, dbok)
  \/ \E h \in GetHashes, dbok \in BOOLEAN : GetProgram(h, dbok)

Spec == Init /\ [][Next]_vars

TypeOK ==
  /\ \A row \in programs : row.code \in Blobs
  /\ \A r \in Reqs : pc[r] \in {"idle", "fields", "insert", "done", "panicked", "aborted"}

\* ------------------------------------------------------------- properties
\* the request has ended, with or without a response
Ended(r) == pc[r] \in {"done", "panicked", "aborted"}

\* the request answered 200 to an upload that carried a program
Stored(r) == pc[r] = "done" /\ resp[r].status = OK /\ program_data[r] # None

\* C1: whatever the interleaving of the uploads, no two rows of the table
\* have the same hash.
C1_UniqueHash ==
  \A x \in programs, y \in programs : x.hash = y.hash => x = y

\* two uploads of one hash overlapped: the later to compute its hash
\* inserted first, the other is still at its INSERT or was refused by it
C1_Witness ==
  \E r1 \in Reqs, r2 \in Reqs :
    /\ id[r2] # 0 /\ id[r2] < id[r1]
    /\ program_hash_hex[r1] = program_hash_hex[r2]
    /\ pc[r1] = "done" /\ resp[r1].status = OK
    /\ pc[r2] = "done" /\ fault[r2] = "unique"
    /\ Cardinality(programs) = 1

\* C2: two uploads of the same blob, the storage working, both answer 200
\* with the same hash, and the table holds one row for it.
C2_IdempotentReupload ==
  \A r1 \in Reqs, r2 \in Reqs :
    ( /\ r1 # r2
      /\ Stored(r1)
      /\ pc[r2] = "done" /\ sent[r2] = sent[r1] /\ fault[r2] # "storage" )
    => /\ resp[r2].status = OK
       /\ resp[r2].body = resp[r1].body
       /\ Cardinality({x \in programs : x.hash = resp[r1].body}) = 1

\* C3: a get_program for the hash a successful upload returned yields the
\* uploaded bytes, or fails on the storage, whatever happened in between.
C3_RoundTrip ==
  [][\A u \in Reqs :
       (Stored(u) /\ lastGet' # lastGet /\ lastGet'.hash = resp[u].body)
       => \/ lastGet'.status = OK /\ lastGet'.body = program_data[u]
          \/ lastGet'.status = INTERNAL_SERVER_ERROR /\ lastGet'.cause = "storage"]_vars

\* a fetch returned the bytes of one upload while the table held a program
\* of another hash as well
C3_Witness ==
  \E u \in Reqs :
    /\ Stored(u)
    /\ lastGet.hash = resp[u].body
    /\ lastGet.status = OK /\ lastGet.body = program_data[u]
    /\ \E x \in programs : x.hash # resp[u].body

NoVersionField(b) == BlobTable[b].json /\ ~BlobTable[b].hasCv

\* the blob has a version field whose major component is an integer
MajorParsed(b) ==
  /\ get_compiler_version(b).ok
  /\ ParseI32(SplitFirst(get_compiler_version(b).val)).ok

Major(b) == ParseI32(SplitFirst(get_compiler_version(b).val)).val

MajorOutside(b, S) == MajorParsed(b) /\ Major(b) \notin S

\* C5 as claimed: an upload whose version has a major component other than
\* 2 is answered 400, has computed no hash and created no row.
C5_Original ==
  \A r \in Reqs :
    ( /\ pc[r] = "done" /\ sent[r] # None /\ MajorOutside(sent[r], {2})
      /\ fault[r] # "storage" )
    => /\ resp[r].status = BAD_REQUEST
       /\ program_hash_hex[r] = <<>>
       /\ \A x \in programs : x.code # sent[r]

\* C5: an upload whose version has an integer major component other than 0
\* and 2 is answered 400, has computed no hash and created no row.
C5_UnsupportedMajor ==
  \A r \in Reqs :
    ( /\ pc[r] # "fields" /\ sent[r] # None /\ MajorOutside(sent[r], {0, 2}) )
    => /\ pc[r] = "done"
       /\ resp[r] = Response(BAD_REQUEST, <<>>)
       /\ program_hash_hex[r] = <<>> /\ id[r] = 0
       /\ \A x \in programs : x.code # sent[r]

\* an upload of major version 5 was answered while the table held a row
C5_Witness ==
  \E r \in Reqs :
    /\ pc[r] = "done" /\ sent[r] # None /\ MajorOutside(sent[r], {0, 2})
    /\ resp[r].status = BAD_REQUEST
    /\ programs # {}

\* C6: every 200 response of upload_program carries the hash of a row that
\* is in the table.
C6_OkMeansStored ==
  \A r \in Reqs :
    (pc[r] = "done" /\ resp[r].status = OK)
    => \E x \in programs : x.hash = resp[r].body

\* the blob cannot be classified, or does not parse as the format its
\* version selects
Malformed(b) ==
  \/ ~BlobTable[b].json
  \/ get_compiler_version(b).ok /\ ~MajorParsed(b)
  \/ MajorParsed(b) /\ Major(b) = 0 /\ ~HashStrippedProgram(b).ok
  \/ MajorParsed(b) /\ Major(b) = 2 /\ ~HashCompiledClass(b).ok

\* C7: an upload of a malformed blob ends with a 500 response and no hash,
\* and no row holds the blob.
C7_MalformedRejected ==
  \A r \in Reqs :
    (Ended(r) /\ sent[r] # None /\ Malformed(sent[r]))
    => /\ resp[r] = Response(INTERNAL_SERVER_ERROR, <<>>)
       /\ \A x \in programs : x.code # sent[r]

\* C8: the response to a get_program of a hash that is not stored differs
\* from the response to a get_program that failed on the storage.
C8_NotFoundDistinct ==
  [][(lastGet.cause = "norow" /\ lastGet'.cause = "storage")
     => <<lastGet.status, lastGet.body>> # <<lastGet'.status, lastGet'.body>>]_vars

\* C9: a row that is in the table stays in the table, with its hash, payload
\* and version as they were.
C9_RowsImmutable ==
  [][\A x \in programs : x \in programs']_vars

\* a second upload of a stored hash, with other bytes, was refused and the
\* first row is still there
C9_Witness ==
  \E r1 \in Reqs, r2 \in Reqs :
    /\ Stored(r1)
    /\ pc[r2] = "done" /\ fault[r2] = "unique" /\ sent[r2] # sent[r1]
    /\ \E x \in programs : x.hash = resp[r1].body /\ x.code = sent[r1]

\* C10: every row has version 0 or 2, its hash is the hash that version
\* selects of its payload, and its payload is the blob of the request that
\* inserted it.
C10_RowConsistent ==
  \A x \in programs :
    /\ x.version \in {0, 2}
    /\ x.version = 2 => HashCompiledClass(x.code).ok /\ x.hash = HashCompiledClass(x.code).hex
    /\ x.version = 0 => HashStrippedProgram(x.code).ok /\ x.hash = HashStrippedProgram(x.code).hex
    /\ \E r \in Reqs : id[r] = x.id /\ sent[r] = x.code

\* the table holds a row of each version
C10_Witness ==
  \E x \in programs, y \in programs : x.version = 0 /\ y.version = 2

\* C11: a get_program request, answered 200 or not, leaves the set of rows
\* as it was.
C11_GetReadOnly ==
  [][lastGet' # lastGet => programs' = programs]_vars

\* a fetch was answered with a stored payload and the row is still in the
\* table, beside another row
C11_Witness ==
  /\ lastGet.status = OK
  /\ \E x \in programs : x.hash = lastGet.hash /\ x.code = lastGet.body
  /\ Cardinality(programs) = 2

\* C12: an upload whose INSERT failed is answered 500 without a hash, has
\* no row of its own in the table, and no request has more than one INSERT
\* executed.
C12_InsertFailureNotRetried ==
  \A r \in Reqs :
    /\ attempts[r] <= 1
    /\ (pc[r] = "done" /\ fault[r] \in {"storage", "unique"}) =>
         /\ resp[r] = Response(INTERNAL_SERVER_ERROR, <<>>)
         /\ attempts[r] = 1
         /\ \A x \in programs : x.id # id[r]

\* an upload failed on the storage and its hash is not in the table
C12_Witness ==
  \E r \in Reqs :
    /\ pc[r] = "done" /\ fault[r] = "storage" /\ attempts[r] = 1
    /\ resp[r].status = INTERNAL_SERVER_ERROR
    /\ \A x \in programs : x.hash # program_hash_hex[r]

\* C13: a fetch either fails, no row of its hash being in the table unless
\* the storage failed, or returns the whole payload of a row that an
\* executed INSERT wrote; an upload that ends before its INSERT (client gone,
\* panic, 400) leaves the table as it was.
C13_NoPartialArtifact ==
  [][/\ lastGet' # lastGet =>
          \/ /\ lastGet'.status = INTERNAL_SERVER_ERROR /\ lastGet'.body = None
             /\ \/ lastGet'.cause = "storage"
                \/ \A x \in programs : x.hash # lastGet'.hash
          \/ /\ lastGet'.status = OK /\ lastGet'.body \in Blobs
             /\ \E x \in programs, r \in Reqs :
                  /\ x.hash = lastGet'.hash /\ x.code = lastGet'.body
                  /\ id[r] = x.id /\ sent[r] = x.code /\ attempts[r] = 1
     /\ \A r \in Reqs :
          (pc[r] = "fields" /\ pc'[r] \in {"aborted", "panicked", "done"})
          => programs' = programs]_vars

\* one upload was aborted before its INSERT, and a fetch returned the
\* payload another upload had inserted
C13_Witness ==
  \E r1 \in Reqs, r2 \in Reqs :
    /\ pc[r1] = "aborted" /\ id[r1] = 0 /\ attempts[r1] = 0
    /\ attempts[r2] = 1 /\ sent[r2] # None
    /\ lastGet.status = OK /\ lastGet.body = sent[r2]
    /\ \E x \in programs : x.id = id[r2] /\ x.hash = lastGet.hash

\* the status get_program answers a storage failure with
StorageFailureStatus == MapErr("storage")

\* C14: a get_program for a hash no row of the table has is answered 500,
\* the status of a storage failure, and carries no payload.
C14_NotFoundIs500 ==
  [][(lastGet' # lastGet /\ \A x \in programs : x.hash # lastGet'.hash)
     => /\ lastGet'.status = INTERNAL_SERVER_ERROR
        /\ lastGet'.body = None
        /\ lastGet'.status = StorageFailureStatus]_vars

\* a fetch of a hash that is not stored was answered while the table held
\* rows, the storage working
C14_Witness ==
  /\ lastGet.cause = "norow" /\ lastGet.status = INTERNAL_SERVER_ERROR
  /\ programs # {}
  /\ \A x \in programs : x.hash # lastGet.hash

\* the rows the INSERT of request r wrote
RowsOf(r) == {x \in programs : x.id = id[r]}

\* C15: a request has at most one INSERT executed and at most one row; the
\* row holds the bytes of the last part named "program", with the version
\* and the hash derived from those bytes; a request that has had no part
\* named "program" has had no INSERT executed and has no row.
C15_AtMostOneRowLastPart ==
  \A r \in Reqs :
    /\ attempts[r] <= 1
    /\ Cardinality(RowsOf(r)) <= attempts[r]
    /\ \A x \in RowsOf(r) :
         /\ sent[r] # None /\ x.code = sent[r]
         /\ MajorParsed(sent[r]) /\ x.version = Major(sent[r])
         /\ x.hash = IF x.version = 2 THEN HashCompiledClass(sent[r]).hex
                     ELSE HashStrippedProgram(sent[r]).hex
    /\ sent[r] = None => attempts[r] = 0 /\ id[r] = 0 /\ RowsOf(r) = {}

\* a request without a "program" part was answered, and the only other
\* request there has been stored its last "program" part, which had replaced
\* one of other bytes
C15_Witness ==
  \E r1 \in Reqs, r2 \in Reqs :
    /\ several /\ Stored(r1)
    /\ \E x \in RowsOf(r1) : x.code = sent[r1]
    /\ pc[r2] = "done" /\ sent[r2] = None /\ RowsOf(r2) = {}
    /\ \A q \in Reqs \ {r1, r2} : pc[q] = "idle"

====
